---- MODULE Spec2Model ----
(***************************************************************************)
(* Cognigy A2A gateway: the Agent Executor (CognigyAgentExecutor), the     *)
(* Task Session Registry and the adapter calls the executor awaits.        *)
(*                                                                         *)
(* An invocation i \in Inv is one call of execute. Its AbortController is  *)
(* identified with i. The event bus is the one the A2A framework keeps per *)
(* task id, so execute(taskId = t) and cancelTask(t) publish to bus[t].    *)
(* Every handler runs to its next await atomically (Node.js event loop);   *)
(* the only await inside execute is adapter.send.                          *)
(***************************************************************************)
EXTENDS Naturals, Integers, Sequences, FiniteSets, TLC

\* ------------------------------------------------------------------ bounds
\* number of execute invocations
NumInv == 1
\* raw backend outputs delivered by the upstream, over all invocations
MaxOutputs == 2
\* cancelTask calls, over all task ids
MaxCancels == 2

Inv == 1..NumInv
TaskIds == {"t1", "t2"}
AdapterTypes == {"REST", "SOCKET"}

\* ------------------------------------------------------- raw backend outputs
\* A CognigyBaseOutput, by what decides its normalization:
\*   text      output.text: "absent" (null or undefined), "blank" (empty or
\*             whitespace only) or "string"
\*   data      "none" (undefined or null), the known key found in output.data,
\*             or "custom" (an object with none of the known keys)
\*   payload   what lies under the known key: an object or null
\*   rendered  whether the payload holds a label, title or text block that its
\*             renderer turns into a line
\*   fallback  data._fallbackText of custom data, as for text
\*   rest      custom data has a key other than _fallbackText and _cognigy
MediaKeys == {"_image", "_audio", "_video"}
StructuredKeys == {"_quickReplies", "_gallery", "_buttons", "_list", "_adaptiveCard"}

Output(text, data, payload, rendered, fallback, rest) ==
  [text |-> text, data |-> data, payload |-> payload, rendered |-> rendered,
   fallback |-> fallback, rest |-> rest]

TextOutput == Output("string", "none", "none", "empty", "absent", FALSE)
ImageOutput == Output("absent", "_image", "obj", "empty", "absent", FALSE)
AudioOutput == Output("absent", "_audio", "obj", "empty", "absent", FALSE)
BadAudioOutput == Output("absent", "_audio", "null", "empty", "absent", FALSE)
RawOutputs == {TextOutput, ImageOutput, AudioOutput, BadAudioOutput}

\* Every raw backend output normalizeOutput tells apart.
Texts == {"absent", "blank", "string"}
AllRawOutputs ==
  {Output(t, "none", "none", "empty", "absent", FALSE) : t \in Texts}
  \cup {Output(t, k, p, "empty", "absent", FALSE) :
          t \in Texts, k \in MediaKeys, p \in {"obj", "null"}}
  \cup {Output(t, k, "null", "empty", "absent", FALSE) : t \in Texts, k \in StructuredKeys}
  \cup {Output(t, k, "obj", r, "absent", FALSE) :
          t \in Texts, k \in StructuredKeys, r \in {"empty", "text"}}
  \cup {Output(t, "custom", "none", "empty", f, r) :
          t \in Texts, f \in Texts, r \in BOOLEAN}

\* What buildOutputsFromMessage yields for one `output` socket event: one
\* entry, or one entry per media key present at the data root.
Batches ==
  {<<TextOutput>>, <<ImageOutput>>, <<ImageOutput, AudioOutput>>, <<ImageOutput, BadAudioOutput>>}

\* What the REQ adapter may resolve with: any list of entries.
RestStacks == {<<>>, <<TextOutput>>, <<BadAudioOutput>>, <<TextOutput, ImageOutput>>}

VARIABLES
  sessions,      \* TaskSessionRegistry.sessions: task id -> controller (0: no entry)
  aborted,       \* controller.signal.aborted of each invocation's controller
  pc,            \* where each execute invocation stands
  taskOf,        \* requestContext.taskId of each invocation
  adapterType,   \* this.adapter.type of the executor running each invocation
  outputs,       \* the adapter's outputs buffer / resolved value
  outputIndex,   \* SocketAdapter outputIndex
  result,        \* how adapter.send settled
  bus,           \* events published on each task's event bus, in order
  finished,      \* number of eventBus.finished() calls per task
  finishedAt,    \* the length of the task's bus at each eventBus.finished() call
  finishedBy,    \* number of eventBus.finished() calls each execute invocation made
  cancelCalls    \* number of cancelTask calls per task

execVars == <<sessions, aborted, pc, taskOf, adapterType, outputs, outputIndex,
              result, bus, finished, finishedAt, finishedBy, cancelCalls>>

\* ------------------------------------------------- SocketConnectionPool state
\* pool entries created over a run
MaxEntries == 2
\* sessions external code marks as started on one entry at a time
MaxSessions == 1
\* `disconnect` and `error` events the upstream raises on open links
MaxEvents == 1
\* `disconnect` and `error` events raised on a client whose link is not open
MaxStrayEvents == 1
\* MAX_RECONNECT_ATTEMPTS
MAX_RECONNECT_ATTEMPTS == 6

Entries == 1..MaxEntries
Agents == {"a1"}
ConnectionState == {"CONNECTING", "IDLE", "ACTIVE", "RECONNECTING", "DEAD"}

VARIABLES
  pool,               \* SocketConnectionPool.pool: agent id -> entry (0: no entry)
  state,              \* PoolEntry.state ("none": the entry is not created yet)
  agentId,            \* PoolEntry.agentId
  activeSessions,     \* PoolEntry.activeSessions
  reconnectAttempts,  \* PoolEntry.reconnectAttempts
  idleTimer,          \* PoolEntry.idleTimer is a timer that has yet to fire
  link,               \* the entry's SocketClient: "closed", "connecting", "open"
  awaiting,           \* the awaits the entry's code is suspended at: create at
                      \* its client.connect(), and the number of handleDisconnect
                      \* calls in the backoff sleep and in client.connect(true)
  poolDead,           \* `poolDead` notifications emitted on the entry's client
  eventCount,         \* `disconnect` and `error` events raised so far on open links
  strayCount,         \* and those raised on links that are not open
  failedReconnects,   \* reconnects of the entry that failed since its last successful connect
  lastCause,          \* the error last handed to handleDisconnect for the entry
  lastOp              \* the last step, when it is an idle timeout, a getOrCreate
                      \* that created an entry or threw, or a markSessionEnded
                      \* that found an entry

poolVars == <<pool, state, agentId, activeSessions, reconnectAttempts, idleTimer,
              link, awaiting, poolDead, eventCount, strayCount, failedReconnects,
              lastCause, lastOp>>

\* ------------------------------------------------- SocketAdapter.send state
\* SESSION_TIMEOUT_MS
SESSION_TIMEOUT_MS == 60000

\* The instants at which the clock of one send call is looked at: the start,
\* half the session timeout, the session timeout, and half a timeout later.
Instants ==
  {0, SESSION_TIMEOUT_MS \div 2, SESSION_TIMEOUT_MS,
   SESSION_TIMEOUT_MS + (SESSION_TIMEOUT_MS \div 2)}

VARIABLES
  clock,           \* ms since send was called (-1: send not called yet)
  client,          \* the session's SocketClient: "none", "connecting", "open", "closed"
  connectPending,  \* client.connect() has not settled
  messageSent,     \* client.sendMessage was called
  sendMessageCalls, \* the number of client.sendMessage calls
  settled,         \* settled
  timeoutHandle,   \* the instant the session timer is due at (-1: no timer set)
  sessOutputs,     \* outputs
  sessOutputIndex, \* outputIndex
  passed,          \* the <<output, index>> pairs onOutput was called with, in order
  thrown,          \* the indexes of the onOutput calls that threw, in order
  promise,         \* the promise send returned
  received,        \* the built outputs of the `output` events that arrived before
                   \* the first finalPing, in order
  finalPinged,     \* a finalPing event has arrived
  lastEvent        \* the listener or callback the last step ran

sockVars == <<clock, client, connectPending, messageSent, sendMessageCalls, settled,
              timeoutHandle, sessOutputs, sessOutputIndex, passed, thrown, promise,
              received, finalPinged, lastEvent>>

Pending == [status |-> "pending", value |-> <<>>, error |-> "none", at |-> -1]

SockInit ==
  /\ clock = -1
  /\ client = "none"
  /\ connectPending = FALSE
  /\ messageSent = FALSE
  /\ sendMessageCalls = 0
  /\ settled = FALSE
  /\ timeoutHandle = -1
  /\ sessOutputs = <<>>
  /\ sessOutputIndex = 0
  /\ passed = <<>>
  /\ thrown = <<>>
  /\ promise = Pending
  /\ received = <<>>
  /\ finalPinged = FALSE
  /\ lastEvent = "none"

\* ------------------------------------------------- normalizeOutput calls
\* calls of normalizeOutput that are followed
MaxCalls == 2

VARIABLES
  normCalls        \* the calls of normalizeOutput so far: the output, the index
                   \* and what the call returned or that it threw

normVars == <<normCalls>>

\* ------------------------------------------------- envelope unwrapping calls
\* calls of the adapters' unwrapping that are followed
MaxUnwraps == 1

\* What the adapters look at in the text of a raw output: undefined, null,
\* '', a blank string, a string with characters in it.
RawTexts == {"absent", "null", "empty", "blank", "string"}

\* A raw output of the upstream (an IMessage, an outputStack entry), by what
\* the unwrapping looks at. hasData: data is an object; envelope: data has
\* no _cognigy key ("none"), a _cognigy without _default ("meta") or with
\* one ("default"); keys: the keys of _cognigy._default among the known
\* ones; media: the media keys at the root of data; custom: data has other
\* keys at its root.
RawMessages ==
  {[text |-> t, hasData |-> FALSE, envelope |-> "none", keys |-> {}, media |-> {},
    custom |-> FALSE] : t \in RawTexts}
  \cup [text : RawTexts, hasData : {TRUE}, envelope : {"none", "meta"}, keys : {{}},
        media : SUBSET MediaKeys, custom : BOOLEAN]
  \cup [text : RawTexts, hasData : {TRUE}, envelope : {"default"},
        keys : SUBSET StructuredKeys, media : SUBSET MediaKeys, custom : BOOLEAN]

VARIABLES
  unwraps          \* the unwrapping calls so far: the adapter, the raw output
                   \* and the entries built from it

envVars == <<unwraps>>

vars == <<execVars, poolVars, sockVars, normVars, envVars>>

RECURSIVE SumOver(_, _)
SumOver(f, S) ==
  IF S = {} THEN 0
  ELSE LET x == CHOOSE y \in S : TRUE IN f[x] + SumOver(f, S \ {x})

\* --------------------------------------------------------- normalizer
\* Parts, by kind; a TextPart by whether its text is the empty string.
textPart == "text"
emptyTextPart == "text-empty"
dataPart == "data"
filePart == "file"

\* textPart(text) for a text that is "" or a string with characters in it
textPartOf(text) == IF text = "" THEN emptyTextPart ELSE textPart

\* str / trim of output.text: "" when it is no string or blank
trimmed(text) == IF text = "string" THEN "s" ELSE ""

\* mergeText(outputText, rendered): empty only when both are
mergeText(outputText, rendered) ==
  IF trimmed(outputText) = "" /\ rendered = "" THEN "" ELSE "s"

\* renderQuickReplies, renderButtons, renderList, renderAdaptiveCard: the
\* lines found in the payload, joined; renderGallery: always starts with an
\* intro line
render(key, output) ==
  IF key = "_gallery" \/ output.rendered = "text" THEN "s" ELSE ""

\* getFallbackText(data): null unless _fallbackText is a non-blank string
getFallbackText(output) == IF output.fallback = "string" THEN "s" ELSE "null"

\* The custom / unknown data branch of normalizeOutput.
customParts(output) ==
  LET rawText == IF output.text = "string" THEN "s" ELSE getFallbackText(output)
      parts == (IF rawText # "null" THEN <<textPartOf(rawText)>> ELSE <<>>)
               \o (IF output.rest THEN <<dataPart>> ELSE <<>>)
  IN IF Len(parts) = 0 THEN <<emptyTextPart>> ELSE parts

\* normalizeOutput: the kind and the parts, or a throw when the payload under
\* a known key is null (data['_audio']['audioUrl'], payload['text'] on null).
normalizeOutput(output) ==
  IF output.data \in MediaKeys
  THEN IF output.payload = "null"
       THEN [kind |-> "throw", parts |-> <<>>]
       ELSE [kind |-> "artifact", parts |-> <<filePart, textPart>>]
  ELSE IF output.data \in StructuredKeys
  THEN IF output.payload = "null"
       THEN [kind |-> "throw", parts |-> <<>>]
       ELSE [kind |-> "status-message",
             parts |-> <<textPartOf(IF output.data = "_gallery"
                                    THEN render(output.data, output)
                                    ELSE mergeText(output.text, render(output.data, output))),
                         dataPart>>]
  ELSE IF output.data = "custom"
  THEN [kind |-> "status-message", parts |-> customParts(output)]
  ELSE [kind |-> "status-message", parts |-> <<textPartOf(trimmed(output.text))>>]

RECURSIVE normalizeFrom(_, _)
normalizeFrom(outs, all) ==
  IF outs = <<>> THEN all
  ELSE LET n == normalizeOutput(Head(outs))
       IN normalizeFrom(Tail(outs), IF n.kind = "throw" THEN all ELSE all \o n.parts)

\* normalizeOutputs: the flat part list of the REQ path.
normalizeOutputs(outs) ==
  IF Len(outs) = 0 THEN <<emptyTextPart>> ELSE normalizeFrom(outs, <<>>)

\* --------------------------------------------------------- events
\* by: the invocation that published the event (0: cancelTask);
\* idx: the index of the raw output a per-output event carries (-1: none).
StatusEvent(taskState, final, by) ==
  [kind |-> "status-update", state |-> taskState, final |-> final,
   message |-> FALSE, parts |-> <<>>, by |-> by, idx |-> -1]

WorkingMessageEvent(parts, by, index) ==
  [kind |-> "status-update", state |-> "working", final |-> FALSE,
   message |-> TRUE, parts |-> parts, by |-> by, idx |-> index]

ArtifactEvent(parts, by, index) ==
  [kind |-> "artifact-update", state |-> "none", final |-> FALSE,
   message |-> FALSE, parts |-> parts, by |-> by, idx |-> index]

MessageEvent(parts, by) ==
  [kind |-> "message", state |-> "none", final |-> FALSE,
   message |-> TRUE, parts |-> parts, by |-> by, idx |-> -1]

ErrorParts == <<textPart>>

\* eventBus.publish
publish(b, event) == Append(b, event)

\* The opening event left out.
publishWorkingSkipped(b, i) == b

publishWorking(b, i) == publish(b, StatusEvent("working", FALSE, i))
publishCompleted(b, i) == publish(b, StatusEvent("completed", TRUE, i))
publishCanceled(b, i) == publish(b, StatusEvent("canceled", TRUE, i))
\* The failure reported as a status-update that is not final.
publishFailedNotFinal(b, i) == publish(b, StatusEvent("failed", FALSE, i))

publishFailed(b, i) == publish(b, StatusEvent("failed", TRUE, i))

\* --------------------------------------------------------- registry
register(s, t, c) == [s EXCEPT ![t] = c]
deregister(s, t) == [s EXCEPT ![t] = 0]

\* --------------------------------------------------------- executor
NoOp == [op |-> "other", outcome |-> "none"]

\* No code of the entry is suspended at an await.
NoAwait == [create |-> FALSE, sleep |-> 0, reconnect |-> 0]

PoolInit ==
  /\ pool = [a \in Agents |-> 0]
  /\ state = [e \in Entries |-> "none"]
  /\ agentId = [e \in Entries |-> "none"]
  /\ activeSessions = [e \in Entries |-> 0]
  /\ reconnectAttempts = [e \in Entries |-> 0]
  /\ idleTimer = [e \in Entries |-> FALSE]
  /\ link = [e \in Entries |-> "closed"]
  /\ awaiting = [e \in Entries |-> NoAwait]
  /\ poolDead = [e \in Entries |-> 0]
  /\ eventCount = 0
  /\ strayCount = 0
  /\ failedReconnects = [e \in Entries |-> 0]
  /\ lastCause = [e \in Entries |-> <<>>]
  /\ lastOp = NoOp

Init ==
  /\ PoolInit
  /\ SockInit
  /\ normCalls = <<>>
  /\ unwraps = <<>>
  /\ sessions = [t \in TaskIds |-> 0]
  /\ aborted = [i \in Inv |-> FALSE]
  /\ pc = [i \in Inv |-> "idle"]
  /\ taskOf = [i \in Inv |-> "none"]
  /\ adapterType = [i \in Inv |-> "none"]
  /\ outputs = [i \in Inv |-> <<>>]
  /\ outputIndex = [i \in Inv |-> 0]
  /\ result = [i \in Inv |-> "none"]
  /\ bus = [t \in TaskIds |-> <<>>]
  /\ finished = [t \in TaskIds |-> 0]
  /\ finishedAt = [t \in TaskIds |-> <<>>]
  /\ finishedBy = [i \in Inv |-> 0]
  /\ cancelCalls = [t \in TaskIds |-> 0]

\* execute up to the await of adapter.send: register the controller, open the
\* task on the STREAM path, start the adapter call. Invocations are numbered
\* in the order they start and "t1" names the first task id used; two
\* invocations may carry the same task id.
ExecuteStart(i, t, ad) ==
  /\ pc[i] = "idle"
  /\ \A j \in Inv : j < i => pc[j] # "idle"
  /\ t = "t2" => \E j \in Inv : taskOf[j] = "t1"
  /\ sessions' = register(sessions, t, i)
  /\ bus' = [bus EXCEPT ![t] = IF ad = "SOCKET" THEN publishWorking(@, i) ELSE @]
  /\ pc' = [pc EXCEPT ![i] = "sending"]
  /\ taskOf' = [taskOf EXCEPT ![i] = t]
  /\ adapterType' = [adapterType EXCEPT ![i] = ad]
  /\ UNCHANGED <<aborted, outputs, outputIndex, result, finished, finishedAt, finishedBy,
                 cancelCalls>>
  /\ UNCHANGED <<poolVars, sockVars, normVars, envVars>>

\* The per-output callback without the check of the cancellation signal.
onOutputNoAbortCheck(b, i, output, index) ==
  LET normalized == normalizeOutput(output)
  IN IF normalized.kind = "throw" THEN b
     ELSE IF normalized.kind = "status-message"
          THEN publish(b, WorkingMessageEvent(normalized.parts, i, index))
          ELSE publish(b, ArtifactEvent(normalized.parts, i, index))

\* The executor's per-output callback.
onOutput(b, i, output, index) ==
  IF aborted[i] THEN b
  ELSE LET normalized == normalizeOutput(output)
       IN IF normalized.kind = "throw" THEN b
          ELSE IF normalized.kind = "status-message"
               THEN publish(b, WorkingMessageEvent(normalized.parts, i, index))
               ELSE publish(b, ArtifactEvent(normalized.parts, i, index))

\* The loop taking the built outputs last to first.
RECURSIVE forEachOutputReversed(_, _, _, _)
forEachOutputReversed(b, i, built, index) ==
  IF built = <<>> THEN b
  ELSE onOutput(forEachOutputReversed(b, i, Tail(built), index + 1), i, Head(built), index)

\* The loop of the SocketAdapter output handler over the built outputs.
RECURSIVE forEachOutput(_, _, _, _)
forEachOutput(b, i, built, index) ==
  IF built = <<>> THEN b
  ELSE forEachOutput(onOutput(b, i, Head(built), index), i, Tail(built), index + 1)

\* SocketAdapter: an `output` event on an unsettled session.
SocketOutput(i, built) ==
  /\ pc[i] = "sending"
  /\ adapterType[i] = "SOCKET"
  /\ SumOver(outputIndex, Inv) + Len(built) <= MaxOutputs
  /\ outputs' = [outputs EXCEPT ![i] = @ \o built]
  /\ bus' = [bus EXCEPT ![taskOf[i]] = forEachOutput(@, i, built, outputIndex[i])]
  /\ outputIndex' = [outputIndex EXCEPT ![i] = @ + Len(built)]
  /\ UNCHANGED <<sessions, aborted, pc, taskOf, adapterType, result, finished, finishedAt,
                 finishedBy, cancelCalls>>
  /\ UNCHANGED <<poolVars, sockVars, normVars, envVars>>

\* closeOut with the return after publishCanceled missing: the close-out
\* follows the canceled event.
closeOutNoReturn(b, i, res, outs) ==
  IF res = "rejected"
  THEN IF adapterType[i] = "SOCKET"
       THEN publishFailed(b, i)
       ELSE publish(b, MessageEvent(ErrorParts, i))
  ELSE LET c == IF aborted[i] THEN publishCanceled(b, i) ELSE b
       IN IF adapterType[i] = "SOCKET"
          THEN publishCompleted(c, i)
          ELSE publish(c, MessageEvent(normalizeOutputs(outs), i))

\* What execute publishes after the adapter call settled: the catch block
\* when it rejected, else the abort check and the close-out.
closeOut(b, i, res, outs) ==
  IF res = "rejected"
  THEN IF adapterType[i] = "SOCKET"
       THEN publishFailed(b, i)
       ELSE publish(b, MessageEvent(ErrorParts, i))
  ELSE IF aborted[i]
       THEN publishCanceled(b, i)
       ELSE IF adapterType[i] = "SOCKET"
            THEN publishCompleted(b, i)
            ELSE publish(b, MessageEvent(normalizeOutputs(outs), i))

\* deregister at the end of the try block only: skipped when the adapter throws.
finallyOnlyOnReturn(s, t, res) == IF res = "rejected" THEN s ELSE deregister(s, t)

\* The finally block of execute.
finally(s, t, res) == deregister(s, t)

\* The catch block passing the adapter's error on to the caller of execute.
executeEndsRethrow(res) == IF res = "rejected" THEN "threw" ELSE "done"

\* How execute ends once the adapter call has settled: the try block returns,
\* or the catch block handles the rejection and throws nothing itself.
executeEnds(res) == "done"

\* eventBus.finished() called at the end of the try block only.
finishedCallsNotInCatch(res) == IF res = "rejected" THEN 0 ELSE 1

\* The eventBus.finished() calls of execute after the adapter call settled:
\* one after publishCanceled, one at the end of the try block, one at the
\* end of the catch block, and each path runs one of them.
finishedCalls(res) == 1

\* execute after the await. The continuation runs in the turn of the event
\* loop in which the adapter's promise settles: publish the terminal event,
\* eventBus.finished(), then the finally block.
ExecuteResume(i, res, outs) ==
  /\ bus' = [bus EXCEPT ![taskOf[i]] = closeOut(@, i, res, outs)]
  /\ finished' = [finished EXCEPT ![taskOf[i]] = @ + finishedCalls(res)]
  /\ finishedAt' = [finishedAt EXCEPT ![taskOf[i]] =
                      IF finishedCalls(res) = 0 THEN @
                      ELSE Append(@, Len(bus'[taskOf[i]]))]
  /\ finishedBy' = [finishedBy EXCEPT ![i] = @ + finishedCalls(res)]
  /\ sessions' = finally(sessions, taskOf[i], res)
  /\ pc' = [pc EXCEPT ![i] = executeEnds(res)]
  /\ result' = [result EXCEPT ![i] = res]

\* SocketAdapter: finalPing settles the call with the buffered outputs.
SocketFinalPing(i) ==
  /\ pc[i] = "sending"
  /\ adapterType[i] = "SOCKET"
  /\ ExecuteResume(i, "resolved", outputs[i])
  /\ UNCHANGED <<aborted, taskOf, adapterType, outputs, outputIndex, cancelCalls>>
  /\ UNCHANGED <<poolVars, sockVars, normVars, envVars>>

\* SocketAdapter: timeout, disconnect, error or connect failure rejects.
SocketError(i) ==
  /\ pc[i] = "sending"
  /\ adapterType[i] = "SOCKET"
  /\ ExecuteResume(i, "rejected", <<>>)
  /\ UNCHANGED <<aborted, taskOf, adapterType, outputs, outputIndex, cancelCalls>>
  /\ UNCHANGED <<poolVars, sockVars, normVars, envVars>>

\* RestAdapter: the HTTP response resolves the call with the output stack.
RestResponse(i, stack) ==
  /\ pc[i] = "sending"
  /\ adapterType[i] = "REST"
  /\ SumOver(outputIndex, Inv) + Len(stack) <= MaxOutputs
  /\ outputs' = [outputs EXCEPT ![i] = stack]
  /\ outputIndex' = [outputIndex EXCEPT ![i] = Len(stack)]
  /\ ExecuteResume(i, "resolved", stack)
  /\ UNCHANGED <<aborted, taskOf, adapterType, cancelCalls>>
  /\ UNCHANGED <<poolVars, sockVars, normVars, envVars>>

\* RestAdapter: HTTP error, timeout or network failure throws an AdapterError.
RestError(i) ==
  /\ pc[i] = "sending"
  /\ adapterType[i] = "REST"
  /\ ExecuteResume(i, "rejected", <<>>)
  /\ UNCHANGED <<aborted, taskOf, adapterType, outputs, outputIndex, cancelCalls>>
  /\ UNCHANGED <<poolVars, sockVars, normVars, envVars>>

\* TaskSessionRegistry.cancel: the controllers after the call; the result is
\* sessions[t] # 0.
cancel(t) ==
  IF sessions[t] = 0 THEN aborted ELSE [aborted EXCEPT ![sessions[t]] = TRUE]

\* cancelTask publishing the canceled event whatever the registry answered.
cancelPublishAlways(b, signalled) == publish(b, StatusEvent("canceled", TRUE, 0))

\* What cancelTask publishes, given the registry's answer.
cancelPublish(b, signalled) ==
  IF signalled THEN b ELSE publish(b, StatusEvent("canceled", TRUE, 0))

\* cancelTask never marking the bus finished.
cancelFinishedNever(n, signalled) == n

cancelFinished(n, signalled) == IF signalled THEN n ELSE n + 1

CancelTask(t) ==
  /\ SumOver(cancelCalls, TaskIds) < MaxCancels
  /\ LET signalled == sessions[t] # 0
     IN /\ aborted' = cancel(t)
        /\ bus' = [bus EXCEPT ![t] = cancelPublish(@, signalled)]
        /\ finished' = [finished EXCEPT ![t] = cancelFinished(@, signalled)]
        /\ finishedAt' = [finishedAt EXCEPT ![t] =
                            IF finished'[t] = finished[t] THEN @
                            ELSE Append(@, Len(bus'[t]))]
  /\ cancelCalls' = [cancelCalls EXCEPT ![t] = @ + 1]
  /\ UNCHANGED <<sessions, pc, taskOf, adapterType, outputs, outputIndex, result,
                 finishedBy>>
  /\ UNCHANGED <<poolVars, sockVars, normVars, envVars>>

Next ==
  \/ \E i \in Inv, t \in TaskIds, ad \in AdapterTypes : ExecuteStart(i, t, ad)
  \/ \E i \in Inv, built \in Batches : SocketOutput(i, built)
  \/ \E i \in Inv : SocketFinalPing(i)
  \/ \E i \in Inv : SocketError(i)
  \/ \E i \in Inv, stack \in RestStacks : RestResponse(i, stack)
  \/ \E i \in Inv : RestError(i)
  \/ \E t \in TaskIds : CancelTask(t)

Spec == Init /\ [][Next]_vars

\* ------------------------------------------------- SocketConnectionPool
\* The SocketClient of an entry is taken to behave as follows: connect()
\* settles by opening the link or by rejecting with the link closed; the
\* `disconnect` and `error` events come from an open link, which is closed
\* after them; disconnect() closes the link, emits nothing, and makes a
\* pending connect() reject. Time is not counted: a timer that is set fires
\* when its delay has passed, which is any later step.

\* Error messages, as the words they contain.
NetworkError == <<"transport", "error">>
Unauthorized == <<"401", "Unauthorized">>
Causes == {NetworkError, Unauthorized}

toLowerCase(w) ==
  CASE w = "Unauthorized" -> "unauthorized"
    [] w = "Forbidden" -> "forbidden"
    [] OTHER -> w

isAuthError(err) ==
  \E k \in 1..Len(err) : toLowerCase(err[k]) \in {"401", "403", "unauthorized", "forbidden"}

\* The pool and its entries, as one value the private methods transform.
PoolNow ==
  [pool |-> pool, state |-> state, activeSessions |-> activeSessions,
   reconnectAttempts |-> reconnectAttempts, idleTimer |-> idleTimer,
   link |-> link, awaiting |-> awaiting, poolDead |-> poolDead,
   failedReconnects |-> failedReconnects, lastCause |-> lastCause]

PoolBecomes(p) ==
  /\ pool' = p.pool
  /\ state' = p.state
  /\ activeSessions' = p.activeSessions
  /\ reconnectAttempts' = p.reconnectAttempts
  /\ idleTimer' = p.idleTimer
  /\ link' = p.link
  /\ awaiting' = p.awaiting
  /\ poolDead' = p.poolDead
  /\ failedReconnects' = p.failedReconnects
  /\ lastCause' = p.lastCause

Op(op, outcome) == [op |-> op, outcome |-> outcome]

clearIdleTimer(p, e) == [p EXCEPT !.idleTimer[e] = FALSE]
startIdleTimer(p, e) == [clearIdleTimer(p, e) EXCEPT !.idleTimer[e] = TRUE]

\* client.disconnect()
disconnect(p, e) == [p EXCEPT !.link[e] = "closed"]

\* markDead leaving the pool map as it is.
markDeadKeepsEntry(p, e) ==
  [clearIdleTimer([p EXCEPT !.state[e] = "DEAD"], e) EXCEPT !.poolDead[e] = @ + 1]

\* markDead(entry): the state, the idle timer, the `poolDead` notification,
\* pool.delete(agentId)
markDead(p, e) ==
  [clearIdleTimer([p EXCEPT !.state[e] = "DEAD"], e) EXCEPT
     !.poolDead[e] = @ + 1, !.pool[agentId[e]] = 0]

\* handleDisconnect giving up only when the counter has passed the maximum.
handleDisconnectOneMore(p, e, cause) ==
  IF isAuthError(cause) THEN markDead(p, e)
  ELSE IF p.reconnectAttempts[e] > MAX_RECONNECT_ATTEMPTS THEN markDead(p, e)
  ELSE [p EXCEPT !.state[e] = "RECONNECTING",
                 !.reconnectAttempts[e] = @ + 1,
                 !.awaiting[e].sleep = @ + 1]

\* handleDisconnect with no auth-error path.
handleDisconnectRetriesAuth(p, e, cause) ==
  IF p.reconnectAttempts[e] >= MAX_RECONNECT_ATTEMPTS THEN markDead(p, e)
  ELSE [p EXCEPT !.state[e] = "RECONNECTING",
                 !.reconnectAttempts[e] = @ + 1,
                 !.awaiting[e].sleep = @ + 1]

\* handleDisconnect up to its sleep.
handleDisconnect(p, e, cause) ==
  IF isAuthError(cause) THEN markDead(p, e)
  ELSE IF p.reconnectAttempts[e] >= MAX_RECONNECT_ATTEMPTS THEN markDead(p, e)
  ELSE [p EXCEPT !.state[e] = "RECONNECTING",
                 !.reconnectAttempts[e] = @ + 1,
                 !.awaiting[e].sleep = @ + 1]

remove(p, a) ==
  IF p.pool[a] = 0 THEN p
  ELSE LET e == p.pool[a]
       IN disconnect([clearIdleTimer(p, e) EXCEPT !.pool[a] = 0], e)

\* getOrCreate: the existing entry, an error when it is DEAD, or create up to
\* its await of client.connect().
GetOrCreate(a) ==
  /\ LET existing == pool[a]
     IN IF existing # 0
        THEN /\ lastOp' = IF state[existing] = "DEAD"
                           THEN Op("getOrCreate", "error") ELSE NoOp
             /\ UNCHANGED <<pool, state, agentId, activeSessions, reconnectAttempts,
                            idleTimer, link, awaiting, poolDead, failedReconnects,
                            lastCause>>
        ELSE \E e \in Entries :
               /\ state[e] = "none"
               /\ \A d \in Entries : d < e => state[d] # "none"
               /\ pool' = [pool EXCEPT ![a] = e]
               /\ state' = [state EXCEPT ![e] = "CONNECTING"]
               /\ agentId' = [agentId EXCEPT ![e] = a]
               /\ link' = [link EXCEPT ![e] = "connecting"]
               /\ awaiting' = [awaiting EXCEPT ![e].create = TRUE]
               /\ lastOp' = Op("getOrCreate", "created")
               /\ UNCHANGED <<activeSessions, reconnectAttempts, idleTimer, poolDead,
                              failedReconnects, lastCause>>
  /\ UNCHANGED <<eventCount, strayCount, execVars, sockVars, normVars, envVars>>

\* create after client.connect() resolved.
CreateConnected(e) ==
  /\ awaiting[e].create
  /\ link[e] = "connecting"
  /\ PoolBecomes(startIdleTimer(
       [PoolNow EXCEPT !.link[e] = "open", !.state[e] = "IDLE",
                       !.reconnectAttempts[e] = 0, !.failedReconnects[e] = 0,
                       !.awaiting[e].create = FALSE], e))
  /\ lastOp' = NoOp
  /\ UNCHANGED <<agentId, eventCount, strayCount, execVars, sockVars, normVars, envVars>>

\* The catch block of create leaving the pool map as it is.
CreateFailedKeepsEntry(e, cause) ==
  /\ awaiting[e].create
  /\ link[e] \in {"connecting", "closed"}
  /\ PoolBecomes(disconnect(clearIdleTimer(
       [PoolNow EXCEPT !.awaiting[e].create = FALSE], e), e))
  /\ lastOp' = NoOp
  /\ UNCHANGED <<agentId, eventCount, strayCount, execVars, sockVars, normVars, envVars>>

\* create after client.connect() rejected: the catch block, which ends in a
\* throw, so that getOrCreate rejects.
CreateFailed(e, cause) ==
  /\ awaiting[e].create
  /\ link[e] \in {"connecting", "closed"}
  /\ PoolBecomes(disconnect(clearIdleTimer(
       [PoolNow EXCEPT !.pool[agentId[e]] = 0, !.awaiting[e].create = FALSE], e), e))
  /\ lastOp' = NoOp
  /\ UNCHANGED <<agentId, eventCount, strayCount, execVars, sockVars, normVars, envVars>>

\* The `disconnect` and `error` listeners of registerClientListeners.
SocketEvent(e, cause) ==
  /\ link[e] = "open"
  /\ eventCount < MaxEvents
  /\ eventCount' = eventCount + 1
  /\ PoolBecomes(IF state[e] # "DEAD"
                 THEN handleDisconnect(
                        [PoolNow EXCEPT !.link[e] = "closed", !.lastCause[e] = cause],
                        e, cause)
                 ELSE [PoolNow EXCEPT !.link[e] = "closed"])
  /\ lastOp' = NoOp
  /\ UNCHANGED <<agentId, strayCount, execVars, sockVars, normVars, envVars>>

\* handleDisconnect after its sleep: return, or start client.connect(true).
ReconnectWake(e) ==
  /\ awaiting[e].sleep > 0
  /\ PoolBecomes(IF state[e] # "RECONNECTING"
                 THEN [PoolNow EXCEPT !.awaiting[e].sleep = @ - 1]
                 ELSE [PoolNow EXCEPT !.awaiting[e].sleep = @ - 1,
                                      !.awaiting[e].reconnect = @ + 1,
                                      !.link[e] = "connecting"])
  /\ lastOp' = NoOp
  /\ UNCHANGED <<agentId, eventCount, strayCount, execVars, sockVars, normVars, envVars>>

\* The reconnect succeeding with the attempt counter left as it is.
ReconnectSucceededKeepsCounter(e) ==
  /\ awaiting[e].reconnect > 0
  /\ link[e] \in {"connecting", "open"}
  /\ LET p == [PoolNow EXCEPT !.link[e] = "open",
                              !.state[e] = IF activeSessions[e] > 0 THEN "ACTIVE" ELSE "IDLE",
                              !.failedReconnects[e] = 0,
                              !.awaiting[e].reconnect = @ - 1]
     IN PoolBecomes(IF activeSessions[e] = 0 THEN startIdleTimer(p, e) ELSE p)
  /\ lastOp' = NoOp
  /\ UNCHANGED <<agentId, eventCount, strayCount, execVars, sockVars, normVars, envVars>>

\* handleDisconnect after client.connect(true) resolved.
ReconnectSucceeded(e) ==
  /\ awaiting[e].reconnect > 0
  /\ link[e] \in {"connecting", "open"}
  /\ LET p == [PoolNow EXCEPT !.link[e] = "open",
                              !.state[e] = IF activeSessions[e] > 0 THEN "ACTIVE" ELSE "IDLE",
                              !.reconnectAttempts[e] = 0,
                              !.failedReconnects[e] = 0,
                              !.awaiting[e].reconnect = @ - 1]
     IN PoolBecomes(IF activeSessions[e] = 0 THEN startIdleTimer(p, e) ELSE p)
  /\ lastOp' = NoOp
  /\ UNCHANGED <<agentId, eventCount, strayCount, execVars, sockVars, normVars, envVars>>

\* The catch block of handleDisconnect only logging the failed reconnect.
ReconnectFailedGivesUp(e, cause) ==
  /\ awaiting[e].reconnect > 0
  /\ link[e] \in {"connecting", "closed"}
  /\ PoolBecomes([PoolNow EXCEPT !.link[e] = "closed", !.awaiting[e].reconnect = @ - 1,
                                  !.failedReconnects[e] = @ + 1, !.lastCause[e] = cause])
  /\ lastOp' = NoOp
  /\ UNCHANGED <<agentId, eventCount, strayCount, execVars, sockVars, normVars, envVars>>

\* handleDisconnect after client.connect(true) rejected: handleDisconnect again.
ReconnectFailed(e, cause) ==
  /\ awaiting[e].reconnect > 0
  /\ link[e] \in {"connecting", "closed"}
  /\ PoolBecomes(handleDisconnect(
       [PoolNow EXCEPT !.link[e] = "closed", !.awaiting[e].reconnect = @ - 1,
                       !.failedReconnects[e] = @ + 1, !.lastCause[e] = cause],
       e, cause))
  /\ lastOp' = NoOp
  /\ UNCHANGED <<agentId, eventCount, strayCount, execVars, sockVars, normVars, envVars>>

MarkSessionStarted(a) ==
  LET e == pool[a]
  IN /\ e # 0 => activeSessions[e] < MaxSessions
     /\ PoolBecomes(
          IF e = 0 \/ state[e] = "DEAD" THEN PoolNow
          ELSE [clearIdleTimer(PoolNow, e) EXCEPT
                  !.activeSessions[e] = @ + 1,
                  !.state[e] = IF @ = "IDLE" THEN "ACTIVE" ELSE @])
     /\ lastOp' = NoOp
     /\ UNCHANGED <<agentId, eventCount, strayCount, execVars, sockVars, normVars, envVars>>

\* Math.max
max(a, b) == IF a >= b THEN a ELSE b

\* The counter after a session ended, not held at zero.
sessionsAfterEndUnclamped(n) == n - 1

\* Math.max(0, entry.activeSessions - 1)
sessionsAfterEnd(n) == max(0, n - 1)

\* What markSessionEnded found: no entry (or a DEAD one), a counter at zero,
\* or a counter it counted down.
Found(e) ==
  IF e = 0 THEN "none"
  ELSE IF state[e] = "DEAD" THEN "none"
  ELSE IF activeSessions[e] = 0 THEN "wasZero" ELSE "counted"

\* The entry going IDLE with no idle timer started.
becomeIdleNoTimer(p, e) == [p EXCEPT !.state[e] = "IDLE"]

\* markSessionEnded, the counter at zero in state ACTIVE: IDLE, startIdleTimer
becomeIdle(p, e) == startIdleTimer([p EXCEPT !.state[e] = "IDLE"], e)

\* markSessionEnded that only counts down.
MarkSessionEndedStaysActive(a) ==
  LET e == pool[a]
      n == sessionsAfterEnd(activeSessions[e])
  IN /\ PoolBecomes(
          IF e = 0 \/ state[e] = "DEAD" THEN PoolNow
          ELSE [PoolNow EXCEPT !.activeSessions[e] = n])
     /\ lastOp' = IF Found(e) = "none" THEN NoOp ELSE Op("markSessionEnded", Found(e))
     /\ UNCHANGED <<agentId, eventCount, strayCount, execVars, sockVars, normVars, envVars>>

MarkSessionEnded(a) ==
  LET e == pool[a]
      n == sessionsAfterEnd(activeSessions[e])
  IN /\ PoolBecomes(
          IF e = 0 \/ state[e] = "DEAD" THEN PoolNow
          ELSE LET p == [PoolNow EXCEPT !.activeSessions[e] = n]
               IN IF n = 0 /\ state[e] = "ACTIVE" THEN becomeIdle(p, e) ELSE p)
     /\ lastOp' = IF Found(e) = "none" THEN NoOp ELSE Op("markSessionEnded", Found(e))
     /\ UNCHANGED <<agentId, eventCount, strayCount, execVars, sockVars, normVars, envVars>>

Remove(a) ==
  /\ PoolBecomes(remove(PoolNow, a))
  /\ lastOp' = NoOp
  /\ UNCHANGED <<agentId, eventCount, strayCount, execVars, sockVars, normVars, envVars>>

\* The callback of the idle timer of entry e: remove(entry.agentId).
IdleTimeout(e) ==
  /\ idleTimer[e]
  /\ PoolBecomes(remove([PoolNow EXCEPT !.idleTimer[e] = FALSE], agentId[e]))
  /\ lastOp' = Op("idleTimeout", "none")
  /\ UNCHANGED <<agentId, eventCount, strayCount, execVars, sockVars, normVars, envVars>>

PoolNext ==
  \/ \E a \in Agents : GetOrCreate(a)
  \/ \E e \in Entries : CreateConnected(e)
  \/ \E e \in Entries, cause \in Causes : CreateFailed(e, cause)
  \/ \E e \in Entries, cause \in Causes : SocketEvent(e, cause)
  \/ \E e \in Entries : ReconnectWake(e)
  \/ \E e \in Entries : ReconnectSucceeded(e)
  \/ \E e \in Entries, cause \in Causes : ReconnectFailed(e, cause)
  \/ \E a \in Agents : MarkSessionStarted(a)
  \/ \E a \in Agents : MarkSessionEnded(a)
  \/ \E a \in Agents : Remove(a)
  \/ \E e \in Entries : IdleTimeout(e)

PoolSpec == Init /\ [][PoolNext]_vars

\* ------------------------------------------------- the pool with its timers
\* and connects running to their end
\* entries created in the runs followed to their end
MaxFairEntries == 1

FewEntries == \A e \in Entries : e > MaxFairEntries => state[e] = "none"

\* The operations of the pool, with getOrCreate creating no more than
\* MaxFairEntries entries.
PoolFairNext ==
  \/ \E a \in Agents : GetOrCreate(a) /\ FewEntries'
  \/ \E e \in Entries : CreateConnected(e)
  \/ \E e \in Entries, cause \in Causes : CreateFailed(e, cause)
  \/ \E e \in Entries, cause \in Causes : SocketEvent(e, cause)
  \/ \E e \in Entries : ReconnectWake(e)
  \/ \E e \in Entries : ReconnectSucceeded(e)
  \/ \E e \in Entries, cause \in Causes : ReconnectFailed(e, cause)
  \/ \E a \in Agents : MarkSessionStarted(a)
  \/ \E a \in Agents : MarkSessionEnded(a)
  \/ \E a \in Agents : Remove(a)
  \/ \E e \in Entries : IdleTimeout(e)

\* The backoff sleep of handleDisconnect is a timer of the event loop: it
\* fires. Every client.connect(true) that was started settles, by resolving
\* or by rejecting.
PoolFairSpec ==
  /\ Init
  /\ [][PoolFairNext]_vars
  /\ \A e \in Entries : WF_vars(ReconnectWake(e))
  /\ \A e \in Entries :
       WF_vars(ReconnectSucceeded(e) \/ \E cause \in Causes : ReconnectFailed(e, cause))

\* ------------------------------------------------- a less orderly SocketClient
\* A client that raises `disconnect` and `error` events on a link that is
\* not open as well: both events for one failure, an `error` while connect()
\* is under way, a `disconnect` after disconnect() was called. The listeners
\* of registerClientListeners run as for any event; the link is left as it is.
StrayEvent(e, cause) ==
  /\ state[e] # "none"
  /\ link[e] # "open"
  /\ strayCount < MaxStrayEvents
  /\ strayCount' = strayCount + 1
  /\ PoolBecomes(IF state[e] # "DEAD"
                 THEN handleDisconnect([PoolNow EXCEPT !.lastCause[e] = cause], e, cause)
                 ELSE PoolNow)
  /\ lastOp' = NoOp
  /\ UNCHANGED <<agentId, eventCount, execVars, sockVars, normVars, envVars>>

PoolStrayNext ==
  \/ PoolNext
  \/ \E e \in Entries, cause \in Causes : StrayEvent(e, cause)

PoolStraySpec == Init /\ [][PoolStrayNext]_vars

\* ------------------------------------------------- SocketAdapter.send
\* One call of send. The upstream may raise any event on the session's
\* client at any time after the client is built, also after the adapter has
\* called client.disconnect(); outputs and finalPing answer the message, so
\* they come after sendMessage. A timer that is due fires before the clock
\* moves on.

\* The fields of one send call the handlers transform.
SessionNow ==
  [client |-> client, settled |-> settled, timeoutHandle |-> timeoutHandle,
   outputs |-> sessOutputs, outputIndex |-> sessOutputIndex, passed |-> passed,
   thrown |-> thrown, promise |-> promise]

SessionBecomes(s) ==
  /\ client' = s.client
  /\ settled' = s.settled
  /\ timeoutHandle' = s.timeoutHandle
  /\ sessOutputs' = s.outputs
  /\ sessOutputIndex' = s.outputIndex
  /\ passed' = s.passed
  /\ thrown' = s.thrown
  /\ promise' = s.promise

\* cleanup that leaves the client connected.
cleanupKeepsClient(s) == [s EXCEPT !.timeoutHandle = -1]

\* cleanup: clearTimeout(timeoutHandle), client.disconnect()
cleanup(s) == [s EXCEPT !.timeoutHandle = -1, !.client = "closed"]

\* settle writing over an earlier settlement.
settleAgain(s, value, error) ==
  [cleanup(s) EXCEPT
     !.settled = TRUE,
     !.promise = IF error # "none"
                 THEN [status |-> "rejected", value |-> <<>>, error |-> error, at |-> clock]
                 ELSE [status |-> "resolved", value |-> value, error |-> "none", at |-> clock]]

\* settle(value, error): the first call settles the promise, later calls return.
settle(s, value, error) ==
  IF s.settled THEN s
  ELSE [cleanup(s) EXCEPT
          !.settled = TRUE,
          !.promise = IF error # "none"
                      THEN [status |-> "rejected", value |-> <<>>, error |-> error, at |-> clock]
                      ELSE [status |-> "resolved", value |-> value, error |-> "none", at |-> clock]]

\* The loop of the output handler leaving the handler when onOutput throws.
RECURSIVE forEachBuiltStopOnThrow(_, _, _)
forEachBuiltStopOnThrow(s, built, throws) ==
  IF built = <<>> THEN s
  ELSE LET called == [s EXCEPT !.outputs = Append(@, Head(built)),
                               !.passed = Append(@, <<Head(built), s.outputIndex>>),
                               !.thrown = IF throws THEN Append(@, s.outputIndex) ELSE @]
       IN IF throws THEN called
          ELSE forEachBuiltStopOnThrow([called EXCEPT !.outputIndex = @ + 1],
                                       Tail(built), throws)

\* The loop of the output handler with outputIndex++ left out.
RECURSIVE forEachBuiltSameIndex(_, _, _)
forEachBuiltSameIndex(s, built, throws) ==
  IF built = <<>> THEN s
  ELSE forEachBuiltSameIndex(
         [s EXCEPT !.outputs = Append(@, Head(built)),
                   !.passed = Append(@, <<Head(built), s.outputIndex>>),
                   !.thrown = IF throws THEN Append(@, s.outputIndex) ELSE @],
         Tail(built), throws)

\* The loop of the output handler: push, call onOutput inside try/catch,
\* count. A throw of onOutput is logged and the loop goes on.
RECURSIVE forEachBuilt(_, _, _)
forEachBuilt(s, built, throws) ==
  IF built = <<>> THEN s
  ELSE forEachBuilt([s EXCEPT !.outputs = Append(@, Head(built)),
                              !.passed = Append(@, <<Head(built), s.outputIndex>>),
                              !.thrown = IF throws THEN Append(@, s.outputIndex) ELSE @,
                              !.outputIndex = @ + 1],
                    Tail(built), throws)

\* The session timer re-armed by every output.
timerAfterOutputRearmed(h) == clock + SESSION_TIMEOUT_MS

\* The session timer after the output handler ran: as it was.
timerAfterOutput(h) == h

\* The `output` listener without its check of settled.
outputListenerUnchecked(s, built, throws) ==
  [forEachBuilt(s, built, throws) EXCEPT !.timeoutHandle = timerAfterOutput(@)]

\* The `output` listener rejecting the call when onOutput throws.
outputListenerAbortsOnThrow(s, built, throws) ==
  IF s.settled THEN s
  ELSE IF throws
       THEN settle(forEachBuiltStopOnThrow(s, built, throws), <<>>, "callback-error")
       ELSE [forEachBuilt(s, built, throws) EXCEPT !.timeoutHandle = timerAfterOutput(@)]

\* The `output` listener: nothing once settled, else the loop over the
\* built outputs.
outputListener(s, built, throws) ==
  IF s.settled THEN s
  ELSE [forEachBuilt(s, built, throws) EXCEPT !.timeoutHandle = timerAfterOutput(@)]

\* send up to the return of the promise: the client, the timer, the
\* listeners, client.connect().
SendStart ==
  /\ client = "none"
  /\ clock' = 0
  /\ client' = "connecting"
  /\ connectPending' = TRUE
  /\ timeoutHandle' = SESSION_TIMEOUT_MS
  /\ lastEvent' = "send"
  /\ UNCHANGED <<messageSent, sendMessageCalls, settled, sessOutputs, sessOutputIndex,
                 passed, thrown, promise, received, finalPinged>>
  /\ UNCHANGED <<execVars, poolVars, normVars, envVars>>

\* The callback of connect().then calling sendMessage whatever settled is.
sendMessageUnlessSettledUnchecked(n) == n + 1

\* The callback of connect().then: `if (settled) return; client.sendMessage`
sendMessageUnlessSettled(n) == IF settled THEN n ELSE n + 1

\* client.connect() resolved: sendMessage, unless settled.
SessionConnected ==
  /\ connectPending
  /\ connectPending' = FALSE
  /\ client' = IF settled THEN client ELSE "open"
  /\ sendMessageCalls' = sendMessageUnlessSettled(sendMessageCalls)
  /\ messageSent' = (sendMessageCalls' > 0)
  /\ lastEvent' = "connect"
  /\ UNCHANGED <<clock, settled, timeoutHandle, sessOutputs, sessOutputIndex, passed,
                 thrown, promise, received, finalPinged>>
  /\ UNCHANGED <<execVars, poolVars, normVars, envVars>>

\* client.connect() rejected.
SessionConnectFailed ==
  /\ connectPending
  /\ connectPending' = FALSE
  /\ SessionBecomes(settle(SessionNow, <<>>, "connect-failed"))
  /\ lastEvent' = "connectError"
  /\ UNCHANGED <<clock, messageSent, sendMessageCalls, received, finalPinged>>
  /\ UNCHANGED <<execVars, poolVars, normVars, envVars>>

\* The `output` listener.
SessionOutput(built, throws) ==
  /\ messageSent
  /\ Len(received) + Len(built) <= MaxOutputs
  /\ received' = IF finalPinged THEN received ELSE received \o built
  /\ SessionBecomes(outputListener(SessionNow, built, throws))
  /\ lastEvent' = "output"
  /\ UNCHANGED <<clock, connectPending, messageSent, sendMessageCalls, finalPinged>>
  /\ UNCHANGED <<execVars, poolVars, normVars, envVars>>

\* The `finalPing` listener.
SessionFinalPing ==
  /\ messageSent
  /\ finalPinged' = TRUE
  /\ SessionBecomes(settle(SessionNow, sessOutputs, "none"))
  /\ lastEvent' = "finalPing"
  /\ UNCHANGED <<clock, connectPending, messageSent, sendMessageCalls, received>>
  /\ UNCHANGED <<execVars, poolVars, normVars, envVars>>

\* The `disconnect` listener.
SessionDisconnect ==
  /\ client # "none"
  /\ SessionBecomes(IF ~settled THEN settle(SessionNow, <<>>, "disconnect") ELSE SessionNow)
  /\ lastEvent' = "disconnect"
  /\ UNCHANGED <<clock, connectPending, messageSent, sendMessageCalls, received, finalPinged>>
  /\ UNCHANGED <<execVars, poolVars, normVars, envVars>>

\* The `error` listener.
SessionError ==
  /\ client # "none"
  /\ SessionBecomes(IF ~settled THEN settle(SessionNow, <<>>, "socket-error") ELSE SessionNow)
  /\ lastEvent' = "error"
  /\ UNCHANGED <<clock, connectPending, messageSent, sendMessageCalls, received, finalPinged>>
  /\ UNCHANGED <<execVars, poolVars, normVars, envVars>>

\* The callback of the session timer.
SessionTimeout ==
  /\ timeoutHandle # -1
  /\ clock >= timeoutHandle
  /\ SessionBecomes(settle([SessionNow EXCEPT !.timeoutHandle = -1], <<>>, "session-timeout"))
  /\ lastEvent' = "timeout"
  /\ UNCHANGED <<clock, connectPending, messageSent, sendMessageCalls, received, finalPinged>>
  /\ UNCHANGED <<execVars, poolVars, normVars, envVars>>

\* Time passes, up to the next instant; not past a timer that is due.
SessionTick ==
  /\ clock # -1
  /\ ~(timeoutHandle # -1 /\ clock >= timeoutHandle)
  /\ clock + (SESSION_TIMEOUT_MS \div 2) \in Instants
  /\ clock' = clock + (SESSION_TIMEOUT_MS \div 2)
  /\ lastEvent' = "tick"
  /\ UNCHANGED <<client, connectPending, messageSent, sendMessageCalls, settled,
                 timeoutHandle, sessOutputs, sessOutputIndex, passed, thrown, promise,
                 received, finalPinged>>
  /\ UNCHANGED <<execVars, poolVars, normVars, envVars>>

SocketNext ==
  \/ SendStart
  \/ SessionConnected
  \/ SessionConnectFailed
  \/ \E built \in Batches, throws \in BOOLEAN : SessionOutput(built, throws)
  \/ SessionFinalPing
  \/ SessionDisconnect
  \/ SessionError
  \/ SessionTimeout
  \/ SessionTick

SocketSpec == Init /\ [][SocketNext]_vars

\* ------------------------------------------------- normalizeOutput, called
\* normalizeOutput(output, index) is called on any raw backend output.
NormalizeOutput(output) ==
  /\ Len(normCalls) < MaxCalls
  /\ normCalls' = Append(normCalls, [output |-> output, index |-> Len(normCalls),
                                       result |-> normalizeOutput(output)])
  /\ UNCHANGED <<execVars, poolVars, sockVars, envVars>>

NormNext == \E output \in AllRawOutputs : NormalizeOutput(output)

NormSpec == Init /\ [][NormNext]_vars

\* ------------------------------------------------- envelope unwrapping
\* The entries the adapters build: a text entry `{ text }`, an entry
\* `{ text: null, data: { <key>: payload } }` for one key, the raw data
\* passed on under the text given.
TextEntry(text) == [text |-> text, data |-> "none"]
KeyEntry(key) == [text |-> "null", data |-> key]
RawEntry(text) == [text |-> text, data |-> "raw"]

\* The order in which the adapters test the known keys and the media keys.
KnownKeys == <<"_quickReplies", "_gallery", "_buttons", "_list", "_adaptiveCard">>
MediaOrder == <<"_image", "_audio", "_video">>

\* if (key in object) result.push({ text: null, data: { key: object[key] } }),
\* for the keys in the order given
pushEach(order, present) ==
  LET found == SelectSeq(order, LAMBDA k : k \in present)
  IN [n \in 1..Len(found) |-> KeyEntry(found[n])]

\* typeof text === 'string' && text.trim() !== ''
isNonBlank(text) == text = "string"

\* Object.keys(rawData).length > 0
hasKeys(m) == m.envelope # "none" \/ m.media # {} \/ m.custom

\* SocketAdapter.buildOutputsFromMessage
buildOutputsFromMessage(message) ==
  IF message.hasData /\ message.envelope = "default"
  THEN LET pushed == pushEach(KnownKeys, message.keys)
       IN IF Len(pushed) > 0 THEN pushed
          ELSE IF isNonBlank(message.text) THEN <<TextEntry(message.text)>> ELSE <<>>
  ELSE IF message.hasData /\ message.media # {}
  THEN pushEach(MediaOrder, message.media)
  ELSE IF isNonBlank(message.text) THEN <<TextEntry(message.text)>>
  ELSE IF message.hasData /\ message.envelope = "meta" THEN <<>>
  ELSE IF message.hasData /\ hasKeys(message) THEN <<RawEntry("null")>>
  ELSE <<>>

\* isCognigyInternalEntry: text is '' or null, and data has keys that are
\* all `_cognigy`.
isCognigyInternalEntry(output) ==
  /\ output.text \in {"empty", "null"}
  /\ output.hasData
  /\ output.envelope # "none"
  /\ output.media = {}
  /\ ~output.custom

\* RestAdapter.expandOutputEntry
expandOutputEntry(entry) ==
  LET pushed == IF isNonBlank(entry.text) THEN <<TextEntry(entry.text)>> ELSE <<>>
  IN IF ~entry.hasData
     THEN IF Len(pushed) > 0 THEN pushed ELSE <<TextEntry(entry.text)>>
     ELSE IF entry.envelope = "default"
     THEN pushed \o pushEach(KnownKeys, entry.keys)
     ELSE IF entry.media # {}
     THEN pushed \o pushEach(MediaOrder, entry.media)
     ELSE IF Len(pushed) = 0 THEN <<RawEntry(entry.text)>> ELSE pushed

\* The loop of RestAdapter.send over one entry of the outputStack: skip an
\* internal entry, else expand.
expandUnlessInternal(entry) ==
  IF isCognigyInternalEntry(entry) THEN <<>> ELSE expandOutputEntry(entry)

\* The `output` listener of SocketAdapter.send unwraps a message.
BuildOutputsFromMessage(message) ==
  /\ Len(unwraps) < MaxUnwraps
  /\ unwraps' = Append(unwraps, [adapter |-> "SOCKET", raw |-> message,
                                  built |-> buildOutputsFromMessage(message)])
  /\ UNCHANGED <<execVars, poolVars, sockVars, normVars>>

\* RestAdapter.send unwraps an entry of the outputStack.
ExpandOutputEntry(entry) ==
  /\ Len(unwraps) < MaxUnwraps
  /\ unwraps' = Append(unwraps, [adapter |-> "REST", raw |-> entry,
                                  built |-> expandUnlessInternal(entry)])
  /\ UNCHANGED <<execVars, poolVars, sockVars, normVars>>

EnvelopeNext ==
  \/ \E message \in RawMessages : BuildOutputsFromMessage(message)
  \/ \E entry \in RawMessages : ExpandOutputEntry(entry)

EnvelopeSpec == Init /\ [][EnvelopeNext]_vars

\* ------------------------------------------------------------ properties
Started(i) == pc[i] # "idle"
Done(i) == pc[i] = "done"

\* The events invocation i published, in the order the bus received them.
EventsBy(i) ==
  IF Started(i) THEN SelectSeq(bus[taskOf[i]], LAMBDA e : e.by = i) ELSE <<>>

\* The per-output events (working-with-message, artifact-update) of i.
PerOutputEvents(i) ==
  IF Started(i)
  THEN SelectSeq(bus[taskOf[i]], LAMBDA e : e.by = i /\ e.idx >= 0)
  ELSE <<>>

IsFinalStatus(e) == e.kind = "status-update" /\ e.final
IsTerminal(e) == IsFinalStatus(e) \/ e.kind = "message"
FinalStatuses(t) == SelectSeq(bus[t], IsFinalStatus)
CanceledFinals(t) ==
  SelectSeq(bus[t], LAMBDA e : IsFinalStatus(e) /\ e.state = "canceled")
Last(q) == q[Len(q)]

C2_OneTerminalStatePerTask ==
  \A t \in TaskIds :
    LET fs == FinalStatuses(t)
    IN Cardinality({fs[k].state : k \in 1..Len(fs)}) <= 1

\* C3 as claimed: an execute whose signal cancelTask fired ends with the
\* terminal canceled event.
C3_FiredSignalEndsCanceled ==
  \A i \in Inv :
    (Done(i) /\ aborted[i]) => Last(EventsBy(i)) = StatusEvent("canceled", TRUE, i)

\* A cancelTask step that finds a signal for t: it fires the signal and
\* publishes nothing.
FiredSignalStep ==
  \A t \in TaskIds :
    (cancelCalls'[t] = cancelCalls[t] + 1 /\ sessions[t] # 0) =>
      /\ bus' = bus
      /\ finished' = finished
      /\ aborted'[sessions[t]]

\* The step in which an execute whose signal was fired returns.
CanceledOnReturnStep ==
  \A i \in Inv :
    (pc[i] = "sending" /\ Done(i)' /\ aborted[i]) =>
      bus'[taskOf[i]] =
        Append(bus[taskOf[i]],
               IF result'[i] = "resolved" THEN StatusEvent("canceled", TRUE, i)
               ELSE IF adapterType[i] = "SOCKET" THEN StatusEvent("failed", TRUE, i)
               ELSE MessageEvent(ErrorParts, i))

\* C3 amended: a cancelTask that finds the signal fires it and publishes
\* nothing, and the running execute publishes the terminal canceled event when
\* its adapter call returns; when the adapter call throws instead, execute
\* publishes failed (STREAM) or the error Message (REQ).
C3_FiredSignalCanceledOnReturn ==
  [][FiredSignalStep /\ CanceledOnReturnStep]_vars

\* cancelTask fired the signal of an in-flight execute, the adapter call
\* returned, and the execute ended with the canceled event.
C3_Witness ==
  \E i \in Inv :
    /\ Done(i)
    /\ aborted[i]
    /\ result[i] = "resolved"
    /\ Last(EventsBy(i)) = StatusEvent("canceled", TRUE, i)
    /\ \A k \in 1..Len(bus[taskOf[i]]) : bus[taskOf[i]][k].by # 0

\* C4: a cancelTask call that finds no registered signal for the task (it
\* ran before execute registered) publishes the terminal canceled
\* status-update itself and marks the bus finished.
C4_CancelBeforeRegisterPublishes ==
  [][\A t \in TaskIds :
       (cancelCalls'[t] = cancelCalls[t] + 1 /\ sessions[t] = 0) =>
         /\ bus'[t] = Append(bus[t], StatusEvent("canceled", TRUE, 0))
         /\ finished'[t] = finished[t] + 1]_vars

\* cancelTask ran first and published canceled; execute for the same task id
\* registered afterwards.
C4_Witness ==
  \E t \in TaskIds :
    /\ Len(bus[t]) >= 1
    /\ bus[t][1] = StatusEvent("canceled", TRUE, 0)
    /\ finished[t] >= 1
    /\ \E i \in Inv : Started(i) /\ taskOf[i] = t

\* C5: at most one canceled terminal event is published per task id, however
\* often cancelTask is called.
C5_AtMostOneCanceledPerTask ==
  \A t \in TaskIds : Len(CanceledFinals(t)) <= 1

\* C6: on a STREAM invocation, once the cancellation signal is set no further
\* per-output event is published, whatever the upstream still delivers.
C6_NoOutputEventAfterAbort ==
  [][\A i \in Inv :
       (aborted[i] /\ adapterType[i] = "SOCKET") =>
         PerOutputEvents(i)' = PerOutputEvents(i)]_vars

\* The signal of a STREAM invocation was set before its first output: the
\* upstream delivered a text output and the callback dropped it.
C6_Witness ==
  \E i \in Inv :
    /\ adapterType[i] = "SOCKET"
    /\ aborted[i]
    /\ Len(outputs[i]) >= 1
    /\ outputs[i][1] = TextOutput
    /\ PerOutputEvents(i) = <<>>

\* C7: the Task Session Registry holds an entry for a task id only while an
\* execute for it is in flight: after execute returns (success, adapter
\* failure or cancellation) cancel(taskId) finds nothing.
C7_RegistryEmptyAfterReturn ==
  \A t \in TaskIds :
    sessions[t] # 0 => \E i \in Inv : taskOf[i] = t /\ pc[i] = "sending"

\* An execute returned on the failure path after its signal was fired, and the
\* registry holds no entry for its task id.
C7_Witness ==
  \E i \in Inv :
    /\ Done(i)
    /\ result[i] = "rejected"
    /\ aborted[i]
    /\ sessions[taskOf[i]] = 0

\* C8: the first event of every STREAM invocation is a working status-update
\* with no message and final: false, and every per-output event follows it.
C8_StreamOpensWithWorking ==
  \A i \in Inv :
    (Started(i) /\ adapterType[i] = "SOCKET") =>
      LET ev == EventsBy(i)
      IN /\ Len(ev) >= 1
         /\ ev[1].kind = "status-update"
         /\ ev[1].state = "working"
         /\ ~ev[1].message
         /\ ~ev[1].final
         /\ \A k \in 1..Len(ev) : ev[k].idx >= 0 => k > 1

\* A STREAM invocation published the opening event and then a per-output
\* event.
C8_Witness ==
  \E i \in Inv :
    /\ adapterType[i] = "SOCKET"
    /\ Len(EventsBy(i)) >= 2
    /\ EventsBy(i)[2].idx >= 0

\* C9: a REQ invocation that has returned published exactly one event, and
\* that event is an agent Message.
C9_ReqPublishesOneMessage ==
  \A i \in Inv :
    (Done(i) /\ adapterType[i] = "REST") =>
      /\ Len(EventsBy(i)) = 1
      /\ EventsBy(i)[1].kind = "message"

\* C10: within one STREAM invocation the per-output events are on the bus in
\* the order in which their raw outputs were received (increasing index).
C10_PerOutputEventsInReceiptOrder ==
  \A i \in Inv :
    LET ev == PerOutputEvents(i)
    IN \A k \in 1..Len(ev) : \A l \in 1..Len(ev) : k < l => ev[k].idx < ev[l].idx

\* A STREAM invocation published two per-output events.
C10_Witness ==
  \E i \in Inv : adapterType[i] = "SOCKET" /\ Len(PerOutputEvents(i)) >= 2

\* C11: execute never throws or rejects. Whatever error the adapter call
\* rejects with, execute ends by returning, after it has published a terminal
\* event for the error and marked the bus finished.
C11_ExecuteNeverThrows ==
  \A i \in Inv :
    /\ pc[i] \in {"idle", "sending", "done"}
    /\ (Started(i) /\ result[i] = "rejected") =>
         /\ Done(i)
         /\ Len(EventsBy(i)) >= 1
         /\ IsTerminal(Last(EventsBy(i)))
         /\ \E k \in 1..Len(finishedAt[taskOf[i]]) :
              bus[taskOf[i]][finishedAt[taskOf[i]][k]] = Last(EventsBy(i))

\* An adapter call rejected and the invocation returned after publishing.
C11_Witness ==
  \E i \in Inv : Done(i) /\ result[i] = "rejected" /\ Len(EventsBy(i)) >= 1

\* C12 as claimed: a STREAM invocation whose adapter call failed published
\* exactly the working status-update and the failed status-update.
C12_FailureSequenceExact ==
  \A i \in Inv :
    (Done(i) /\ adapterType[i] = "SOCKET" /\ result[i] = "rejected") =>
      EventsBy(i) = <<StatusEvent("working", FALSE, i), StatusEvent("failed", TRUE, i)>>

\* C12 amended: a STREAM invocation whose adapter call failed published the
\* working status-update with no message first and the failed status-update
\* (final: true) last, eventBus.finished() followed the failed event, and
\* every event in between is the per-output event of an output received
\* before the failure.
C12_FailureSequence ==
  \A i \in Inv :
    (Done(i) /\ adapterType[i] = "SOCKET" /\ result[i] = "rejected") =>
      LET ev == EventsBy(i)
          t == taskOf[i]
      IN /\ Len(ev) >= 2
         /\ ev[1] = StatusEvent("working", FALSE, i)
         /\ Last(ev) = StatusEvent("failed", TRUE, i)
         /\ \A k \in 2..(Len(ev) - 1) : ev[k].idx >= 0 /\ ~ev[k].final
         /\ \E k \in 1..Len(finishedAt[t]) :
              bus[t][finishedAt[t][k]] = StatusEvent("failed", TRUE, i)

\* The adapter call of a STREAM invocation failed after an output had been
\* received and published.
C12_Witness ==
  \E i \in Inv :
    /\ Done(i)
    /\ adapterType[i] = "SOCKET"
    /\ result[i] = "rejected"
    /\ Len(EventsBy(i)) = 3
    /\ EventsBy(i)[2].idx = 0

\* ------------------------------------------------- properties of the pool
InPool(e) == \E a \in Agents : pool[a] = e

\* C13: after six consecutive failed reconnects the entry's state is DEAD and
\* the entry is absent from the pool.
C13_DeadAfterSixFailedReconnects ==
  \A e \in Entries :
    failedReconnects[e] >= MAX_RECONNECT_ATTEMPTS => state[e] = "DEAD" /\ ~InPool(e)

\* The sixth reconnect in a row has failed with a non-auth error.
C13_Witness ==
  \E e \in Entries :
    /\ failedReconnects[e] = MAX_RECONNECT_ATTEMPTS
    /\ lastCause[e] = NetworkError
    /\ state[e] = "DEAD"

\* C14: an entry whose handleDisconnect was handed an auth-flagged error (from
\* a `disconnect` or `error` event, or from a failed reconnect, at whatever
\* attempt count) is DEAD and out of the pool, and no sleep or reconnect of
\* it is pending or under way.
C14_AuthErrorGoesDead ==
  \A e \in Entries :
    isAuthError(lastCause[e]) =>
      /\ state[e] = "DEAD"
      /\ ~InPool(e)
      /\ awaiting[e] = NoAwait
      /\ link[e] = "closed"

\* The second reconnect in a row failed with an auth-flagged error.
C14_Witness ==
  \E e \in Entries :
    /\ isAuthError(lastCause[e])
    /\ failedReconnects[e] = 2
    /\ reconnectAttempts[e] = 2
    /\ state[e] = "DEAD"

\* C15: once an entry of an agent has gone DEAD, a get-or-create for that
\* agent ends in an immediate error: it creates no entry.
C15_GetOrCreateAfterDeadIsError ==
  [][\A a \in Agents :
       (/\ lastOp'.op = "getOrCreate"
        /\ \E e \in Entries : agentId[e] = a /\ state[e] = "DEAD") =>
         lastOp'.outcome = "error"]_vars

\* C16: per agent id at most one client is connecting or connected.
C16_OneSessionPerAgent ==
  \A a \in Agents :
    Cardinality({e \in Entries : agentId[e] = a /\ link[e] \in {"connecting", "open"}}) <= 1

\* C17: when an idle timer fires, the IDLE entry of the pool it was set for
\* is disconnected and removed, and no entry that is ACTIVE is removed.
C17_IdleTimeoutRemovesIdleOnly ==
  [][lastOp'.op = "idleTimeout" =>
       \A a \in Agents :
         LET e == pool[a]
         IN /\ (e # 0 /\ state[e] = "IDLE" /\ idleTimer[e] /\ ~idleTimer'[e]) =>
                 pool'[a] = 0 /\ link'[e] = "closed"
            /\ (e # 0 /\ state[e] = "ACTIVE") => pool'[a] = e]_vars

\* ------------------------------------------------- properties of send
Rejected(kind, at) == [status |-> "rejected", value |-> <<>>, error |-> kind, at |-> at]

\* C18: when send has resolved, its value is the list of all outputs received
\* before the finalPing, in the order received, and onOutput was called with
\* exactly these outputs in this order, numbered from 0.
C18_ResolvesWithAllOutputsInOrder ==
  promise.status = "resolved" =>
    /\ promise.value = received
    /\ Len(passed) = Len(received)
    /\ \A k \in 1..Len(passed) : passed[k] = <<received[k], k - 1>>

\* send resolved with two outputs that arrived in two `output` events.
C18_Witness ==
  /\ promise.status = "resolved"
  /\ promise.value = <<TextOutput, ImageOutput>>
  /\ passed = <<<<TextOutput, 0>>, <<ImageOutput, 1>>>>

\* C19: a disconnect or error event on an unsettled session rejects send with
\* the adapter error of that event, and a settled send stays as it is: a
\* finalPing that comes afterwards does not resolve it.
C19_DisconnectOrErrorRejects ==
  [][/\ (~settled /\ lastEvent' = "disconnect") =>
          settled' /\ promise' = Rejected("disconnect", clock)
     /\ (~settled /\ lastEvent' = "error") =>
          settled' /\ promise' = Rejected("socket-error", clock)
     /\ promise.status # "pending" => promise' = promise]_vars

\* The session was disconnected after an output; the finalPing came after
\* the disconnect, and send is rejected with the disconnect error.
C19_Witness ==
  /\ promise.status = "rejected"
  /\ promise.error = "disconnect"
  /\ Len(sessOutputs) >= 1
  /\ lastEvent = "finalPing"

\* C20: a send call that is not settled is no more than SESSION_TIMEOUT_MS
\* old, every settlement happened within SESSION_TIMEOUT_MS of the start, and
\* the timer callback rejects with the session-timeout error.
C20_SettlesWithinSessionTimeout ==
  /\ clock > SESSION_TIMEOUT_MS => promise.status # "pending"
  /\ promise.status # "pending" => promise.at <= SESSION_TIMEOUT_MS
  /\ lastEvent = "timeout" => promise = Rejected("session-timeout", SESSION_TIMEOUT_MS)

\* The upstream kept sending outputs and no finalPing; the timer rejected
\* the call at the session timeout.
C20_Witness ==
  /\ promise = Rejected("session-timeout", SESSION_TIMEOUT_MS)
  /\ Len(sessOutputs) = MaxOutputs
  /\ ~finalPinged
  /\ clock > SESSION_TIMEOUT_MS

\* ------------------------------------------------- more properties of the pool
\* C22: every entry of the pool whose state is IDLE has no active session.
C22_IdleHasNoSessions ==
  \A e \in Entries : (InPool(e) /\ state[e] = "IDLE") => activeSessions[e] = 0

\* C23: every entry whose state is ACTIVE has at least one active session.
C23_ActiveHasSessions ==
  \A e \in Entries : state[e] = "ACTIVE" => activeSessions[e] > 0

\* An entry of the pool is ACTIVE with one session, on a link that was
\* opened again after a disconnect.
C23_Witness ==
  \E e \in Entries :
    /\ InPool(e)
    /\ state[e] = "ACTIVE"
    /\ activeSessions[e] = 1
    /\ eventCount = 1
    /\ link[e] = "open"

\* C24: no entry the pool map holds is DEAD, and the step that makes an entry
\* DEAD emits one poolDead notification on it, leaves it without idle timer
\* and leaves no entry in the pool under its agent id.
C24_DeadIsOutOfPool ==
  /\ [](\A e \in Entries : InPool(e) => state[e] # "DEAD")
  /\ [][\A e \in Entries :
          (state[e] # "DEAD" /\ state'[e] = "DEAD") =>
            /\ poolDead'[e] = poolDead[e] + 1
            /\ ~idleTimer'[e]
            /\ pool'[agentId[e]] = 0]_vars

\* An entry of the pool that was IDLE, with its idle timer set, went DEAD on
\* an auth error.
C24_Witness ==
  \E e \in Entries :
    /\ state[e] = "DEAD"
    /\ poolDead[e] = 1
    /\ failedReconnects[e] = 0
    /\ isAuthError(lastCause[e])
    /\ ~InPool(e)

\* C25: once an entry is DEAD its state stays DEAD and no idle timer is set
\* for it, whatever happens later.
C25_DeadIsAbsorbing ==
  [][\A e \in Entries :
       state[e] = "DEAD" => state'[e] = "DEAD" /\ ~idleTimer'[e]]_vars

\* C26: for each entry at most one handleDisconnect call is in its backoff
\* sleep or its client.connect(true).
C26_OneReconnectPerEntry ==
  \A e \in Entries : awaiting[e].sleep + awaiting[e].reconnect <= 1

\* The entry was created and is in the pool no longer, without being DEAD.
Removed(e) == state[e] \notin {"none", "DEAD"} /\ ~InPool(e) /\ ~awaiting[e].create

\* The step is one of entry e's own: its idle timer fires, or one of its
\* handleDisconnect calls goes on.
EntryStep(e) ==
  \/ awaiting'[e] # awaiting[e]
  \/ idleTimer[e] /\ ~idleTimer'[e] /\ lastOp'.op = "idleTimeout"

\* C27: the client of a removed entry stays disconnected, and no step of a
\* removed entry changes the pool map or another entry.
C27_RemovedEntryIsInert ==
  [][\A e \in Entries :
       Removed(e) =>
         /\ link'[e] = "closed"
         /\ EntryStep(e) =>
              /\ pool' = pool
              /\ \A d \in Entries \ {e} :
                   /\ state'[d] = state[d]
                   /\ link'[d] = link[d]
                   /\ idleTimer'[d] = idleTimer[d]]_vars

\* C28: an idle timer is pending only for an entry that is IDLE with no
\* active session.
C28_IdleTimerOnlyWhenIdle ==
  \A e \in Entries : idleTimer[e] => state[e] = "IDLE" /\ activeSessions[e] = 0

\* ------------------------------------------------- more properties of send
\* C29: once send has settled, no event changes the promise, the outputs
\* buffer or the index, and onOutput is not called again.
C29_SettlesAtMostOnce ==
  [][settled =>
       /\ settled'
       /\ promise' = promise
       /\ passed' = passed
       /\ sessOutputs' = sessOutputs
       /\ sessOutputIndex' = sessOutputIndex]_vars

\* An output event arrived after the finalPing had resolved send with one
\* output.
C29_Witness ==
  /\ promise.status = "resolved"
  /\ finalPinged
  /\ lastEvent = "output"
  /\ Len(passed) = 1
  /\ Len(promise.value) = 1

\* C30: when send has settled, by whatever path, the session timer is
\* cleared and client.disconnect() has been called.
C30_TornDownOnEveryExit ==
  promise.status # "pending" => timeoutHandle = -1 /\ client = "closed"

\* send was rejected because connect failed; the timer is cleared and the
\* client disconnected.
C30_Witness ==
  /\ promise.status = "rejected"
  /\ promise.error = "connect-failed"
  /\ timeoutHandle = -1
  /\ client = "closed"
  /\ ~messageSent

\* ---------------------------------------------------------------- C21
IsTextPart(part) == part \in {textPart, emptyTextPart}

\* C21: every Normalized Output normalizeOutput returns, for any raw backend
\* output, has at least one text part among its parts.
C21_AlwaysATextPart ==
  \A k \in 1..Len(normCalls) :
    normCalls[k].result.kind # "throw" =>
      \E j \in 1..Len(normCalls[k].result.parts) :
        IsTextPart(normCalls[k].result.parts[j])

\* ---------------------------------------------------------------- C31
\* A client.connect(true) of entry e resolves in this step.
ReconnectSucceeds(e) ==
  /\ awaiting'[e].reconnect < awaiting[e].reconnect
  /\ link'[e] = "open"

\* C31: a reconnect that succeeds finds the entry RECONNECTING, sets its
\* attempt counter to 0 and its state to ACTIVE when it has sessions, to IDLE
\* when it has none.
C31_ReconnectResetsAndRestores ==
  [][\A e \in Entries :
       ReconnectSucceeds(e) =>
         /\ state[e] = "RECONNECTING"
         /\ reconnectAttempts'[e] = 0
         /\ activeSessions'[e] = activeSessions[e]
         /\ state'[e] = IF activeSessions[e] > 0 THEN "ACTIVE" ELSE "IDLE"]_vars

\* An entry without sessions lost its link and has it back: IDLE, counter 0.
C31_Witness ==
  \E e \in Entries :
    /\ lastCause[e] = NetworkError
    /\ link[e] = "open"
    /\ state[e] = "IDLE"
    /\ activeSessions[e] = 0
    /\ reconnectAttempts[e] = 0

\* ---------------------------------------------------------------- C32
\* C32: markSessionEnded on an entry of the pool with sessions counts the
\* counter down by one; when that makes it zero and the entry is ACTIVE the
\* entry goes IDLE with its idle timer set, and otherwise neither the state
\* nor the timer changes.
C32_SessionEndedCountsDownAndIdles ==
  [][lastOp'.op = "markSessionEnded" =>
       \E a \in Agents :
         LET e == pool[a]
         IN   /\ e # 0 /\ state[e] # "DEAD"
              /\ activeSessions[e] > 0 => activeSessions'[e] = activeSessions[e] - 1
              /\ IF activeSessions'[e] = 0 /\ state[e] = "ACTIVE"
                 THEN state'[e] = "IDLE" /\ idleTimer'[e]
                 ELSE state'[e] = state[e] /\ idleTimer'[e] = idleTimer[e]]_vars

\* A session of a live entry of the pool has ended, its counter is at zero and
\* the entry is IDLE with its idle timer set.
C32_Witness ==
  /\ lastOp = Op("markSessionEnded", "counted")
  /\ \E e \in Entries :
       /\ InPool(e)
       /\ state[e] = "IDLE"
       /\ activeSessions[e] = 0
       /\ idleTimer[e]
       /\ link[e] = "open"

\* ---------------------------------------------------------------- C37
\* C37: no entry's active-session counter is ever negative, and a
\* markSessionEnded that finds the counter of a live entry of the pool at 0
\* leaves it at 0.
C37_CounterNeverNegative ==
  /\ [](\A e \in Entries : activeSessions[e] >= 0)
  /\ [][lastOp' = Op("markSessionEnded", "wasZero") =>
          \E a \in Agents :
            /\ pool[a] # 0
            /\ activeSessions[pool[a]] = 0
            /\ activeSessions'[pool[a]] = 0]_vars

\* markSessionEnded has just run on an entry without sessions: still none.
C37_Witness ==
  /\ lastOp = Op("markSessionEnded", "wasZero")
  /\ \E e \in Entries : InPool(e) /\ activeSessions[e] = 0

\* ---------------------------------------------------------------- C38
\* The await of client.connect() in create ends with a rejection: the catch
\* block runs and create, and with it getOrCreate, throws.
CreateRejects(e) ==
  /\ awaiting[e].create
  /\ ~awaiting'[e].create
  /\ link'[e] = "closed"

\* C38: when the first connect of a new entry fails, the step in which
\* getOrCreate rejects leaves the pool without an entry for that agent.
C38_FailedCreateLeavesNoEntry ==
  [][\A e \in Entries : CreateRejects(e) => pool'[agentId[e]] = 0]_vars

\* The create of an entry has rejected: the entry never left CONNECTING, its
\* client is disconnected and the pool has nothing for its agent.
C38_Witness ==
  \E e \in Entries :
    /\ state[e] = "CONNECTING"
    /\ ~awaiting[e].create
    /\ link[e] = "closed"
    /\ pool[agentId[e]] = 0

\* ---------------------------------------------------------------- C33
\* C33: an `output` event on an unsettled session in which onOutput throws
\* leaves the session unsettled with its client and promise as they were,
\* and every built output of the event has been passed to onOutput; and a
\* finalPing on an unsettled session resolves send with all outputs
\* received, whatever onOutput threw before.
C33_ThrowDoesNotAbort ==
  [][/\ (lastEvent' = "output" /\ ~settled /\ thrown' # thrown) =>
          /\ ~settled'
          /\ promise' = promise
          /\ client' = client
          /\ Len(passed') = Len(received')
          /\ sessOutputs' = received'
     /\ (lastEvent' = "finalPing" /\ ~settled /\ thrown # <<>>) =>
          /\ promise'.status = "resolved"
          /\ promise'.value = received'
          /\ Len(passed') = Len(received')]_vars

\* onOutput threw on the first output; the second was passed all the same
\* and send resolved with both.
C33_Witness ==
  /\ promise.status = "resolved"
  /\ thrown = <<0>>
  /\ Len(passed) = 2
  /\ promise.value = received
  /\ Len(promise.value) = 2

\* ---------------------------------------------------------------- C36
\* C36: within one send call the k-th call of onOutput carries index k - 1,
\* counting calls from 1, the entry it carries is the one at that index of
\* the outputs buffer, outputIndex is the number of calls made, and the list
\* send resolves with has exactly the entries passed, each at its index.
C36_IndexIsPositionInResult ==
  /\ sessOutputIndex = Len(passed)
  /\ Len(sessOutputs) = Len(passed)
  /\ \A k \in 1..Len(passed) :
       /\ passed[k][2] = k - 1
       /\ sessOutputs[passed[k][2] + 1] = passed[k][1]
  /\ promise.status = "resolved" =>
       /\ Len(promise.value) = Len(passed)
       /\ \A k \in 1..Len(passed) : promise.value[passed[k][2] + 1] = passed[k][1]

\* One `output` event unwrapped to two entries, passed with indexes 0 and 1,
\* and send resolved with the two.
C36_Witness ==
  /\ passed = <<<<ImageOutput, 0>>, <<AudioOutput, 1>>>>
  /\ promise.status = "resolved"
  /\ promise.value = <<ImageOutput, AudioOutput>>

\* ---------------------------------------------------------------- C40
\* C40: one send call calls client.sendMessage at most once; the call is
\* made in the step in which connect() resolves, on a session that has not
\* settled, and no other step makes it.
C40_MessageSentOnceAfterConnect ==
  /\ [](sendMessageCalls <= 1)
  /\ [][sendMessageCalls' # sendMessageCalls =>
          /\ lastEvent' = "connect"
          /\ connectPending /\ ~connectPending'
          /\ ~settled
          /\ client' = "open"]_vars
  /\ [][(lastEvent' = "connect" /\ settled) => sendMessageCalls' = sendMessageCalls]_vars

\* The session timer fired while connect() was pending; connect() resolved
\* afterwards and no message was sent.
C40_Witness ==
  /\ promise.status = "rejected"
  /\ promise.error = "session-timeout"
  /\ lastEvent = "connect"
  /\ ~connectPending
  /\ sendMessageCalls = 0

\* ---------------------------------------------------------------- C34
\* C34: an execute invocation has called eventBus.finished() not at all
\* before its adapter call settled and exactly once when it has returned,
\* whether the call resolved, was canceled or rejected; and at that one call
\* the last event on the bus was the invocation's own terminal event.
C34_FinishedOncePerInvocation ==
  \A i \in Inv :
    /\ ~Done(i) => finishedBy[i] = 0
    /\ Done(i) =>
         /\ finishedBy[i] = 1
         /\ \E k \in 1..Len(finishedAt[taskOf[i]]) :
              LET n == finishedAt[taskOf[i]][k]
              IN /\ n >= 1
                 /\ bus[taskOf[i]][n].by = i
                 /\ IsTerminal(bus[taskOf[i]][n])
                 /\ bus[taskOf[i]][n] = Last(EventsBy(i))

\* A canceled invocation has returned: its canceled event is on the bus and
\* it marked the bus finished once.
C34_Witness ==
  \E i \in Inv :
    /\ Done(i)
    /\ aborted[i]
    /\ result[i] = "resolved"
    /\ Last(EventsBy(i)) = StatusEvent("canceled", TRUE, i)
    /\ finishedBy[i] = 1

\* ---------------------------------------------------------------- C35
\* C35: for a raw output with known keys under _cognigy._default, either
\* adapter builds one entry per known key present, in the order of the known
\* keys, each with the key at the top level and text null, and no entry that
\* carries the raw text.
C35_UnwrapsWithoutRawText ==
  \A n \in 1..Len(unwraps) :
    LET call == unwraps[n]
    IN (call.raw.hasData /\ call.raw.envelope = "default" /\ call.raw.keys # {}) =>
         call.built = pushEach(KnownKeys, call.raw.keys)

\* ---------------------------------------------------------------- C39
\* C39: an entry that is RECONNECTING is IDLE, ACTIVE or DEAD at some later
\* time, when every backoff sleep ends and every connect(true) settles.
C39_ReconnectingEnds ==
  \A e \in Entries :
    (state[e] = "RECONNECTING") ~> (state[e] \in {"IDLE", "ACTIVE", "DEAD"})

\* An entry that lost its link has left RECONNECTING: the link is open
\* again, the attempt counter is back at 0 and the entry is ACTIVE with a
\* session.
C39_Witness ==
  \E e \in Entries :
    /\ lastCause[e] = NetworkError
    /\ state[e] = "ACTIVE"
    /\ activeSessions[e] = 1
    /\ link[e] = "open"
    /\ reconnectAttempts[e] = 0

====
